---- MODULE Spec2Model ----
(***************************************************************************)
(* A model of src/game.js, the rules engine of the game: the lobby         *)
(* (playerJoined / playerLeft), the command dispatcher and the             *)
(* action / challenge / block state machine.                               *)
(*                                                                         *)
(* Conventions                                                             *)
(*  - Seat indices are 1-based (JavaScript index i is i+1 here); 0 stands  *)
(*    for a JavaScript undefined / null index.                             *)
(*  - The deck is kept as a bag (role -> number of copies).  The code      *)
(*    keeps an array that is shuffled by a seeded generator each time a    *)
(*    card is returned; since nothing observes the order but pop(), a pop  *)
(*    is a choice among the cards of the bag.                              *)
(*  - A handler is one atomic step.  Every procedure of the code is an     *)
(*    operator from a game record g to the SET of its possible outcomes    *)
(*    [g, ret, err]: the set is the choice of the random generator, err    *)
(*    is the message of the exception thrown (NoErr when none) and g the   *)
(*    game as it stands at the return or the throw.                        *)
(*  - options.firstPlayer is the test override of the first turn holder;   *)
(*    the model takes the configuration that leaves it unset.              *)
(***************************************************************************)
EXTENDS Integers, Sequences, FiniteSets, TLC

\* ---------------------------------------------------------------- bounds
MaxSeats == 3        \* seats (players and observers) in the main specification
MaxStateId == 9      \* stateId is capped: no handler starts at or above it
MaxLobbySeats == 7   \* seats in the lobby specification (one above MAX_PLAYERS)
MaxLobbyId == 15     \* stateId cap of the lobby specification
MaxLobbyAi == 1       \* AI seats at a time in the lobby specification
MaxLobbyStart == 3    \* seats present at a start in the lobby specification
MaxDeckSeats == 6     \* seats of the full-table specification
MaxShiftId == 21      \* stateId cap of the seat-shift specification
MaxShiftStart == 4    \* seats present at a start in the seat-shift specification
MaxAsyncSeats == 3   \* seats of the deferred-delivery specification
MaxAsyncId == 7      \* stateId cap of the deferred-delivery specification
MaxTimers == 6       \* deferred snapshot deliveries pending at once
MaxDeckId == 16       \* stateId cap of the full-table specification

\* ------------------------------------------------------ program constants
MIN_PLAYERS == 2
MAX_PLAYERS == 6
StartCash == 2
DeckCopies == 3
CoupThreshold == 10

WAITING_FOR_PLAYERS == "waiting-for-players"
START_OF_TURN == "start-of-turn"
ACTION_RESPONSE == "action-response"
FINAL_ACTION_RESPONSE == "final-action-response"
BLOCK_RESPONSE == "block-response"
REVEAL_INFLUENCE == "reveal-influence"
EXCHANGE == "exchange"
INTERROGATE == "interrogate"
GAME_WON == "game-won"
DESTROYED == "destroyed"

Undef == "undefined"
NoErr == "none"
TypeError == "TypeError"

BaseRoles == <<"duke", "captain", "assassin", "contessa">>
AllRoles == {"duke", "captain", "assassin", "contessa", "ambassador", "inquisitor"}
GameTypes == {"original", "inquisitors"}

ActionNames ==
  {"coup", "income", "foreign-aid", "tax", "assassinate", "steal", "exchange", "interrogate"}

\* shared.actions (web/shared.js): cost, gain, claimed roles, targeted, blockedBy.
actions(a) ==
  CASE a = "coup" ->
         [cost |-> 7, gain |-> 0, roles |-> {}, targeted |-> TRUE, blockedBy |-> {}]
    [] a = "income" ->
         [cost |-> 0, gain |-> 1, roles |-> {}, targeted |-> FALSE, blockedBy |-> {}]
    [] a = "foreign-aid" ->
         [cost |-> 0, gain |-> 2, roles |-> {}, targeted |-> FALSE, blockedBy |-> {"duke"}]
    [] a = "tax" ->
         [cost |-> 0, gain |-> 3, roles |-> {"duke"}, targeted |-> FALSE, blockedBy |-> {}]
    [] a = "assassinate" ->
         [cost |-> 3, gain |-> 0, roles |-> {"assassin"}, targeted |-> TRUE,
          blockedBy |-> {"contessa"}]
    [] a = "steal" ->
         [cost |-> 0, gain |-> 0, roles |-> {"captain"}, targeted |-> TRUE,
          blockedBy |-> {"captain", "ambassador", "inquisitor"}]
    [] a = "exchange" ->
         [cost |-> 0, gain |-> 0, roles |-> {"ambassador", "inquisitor"}, targeted |-> FALSE,
          blockedBy |-> {}]
    [] a = "interrogate" ->
         [cost |-> 0, gain |-> 0, roles |-> {"inquisitor"}, targeted |-> TRUE,
          blockedBy |-> {}]

\* ------------------------------------------------------------------ state
VARIABLES
  players,      \* state.players: the seat records
  conn,         \* players[]: "human", "ai" or "null" (a seat that left mid-game)
  proxies,      \* proxies[]: per handle, the seat index it captured and whether it is the observer's no-op
  roles,        \* state.roles
  deck,         \* deck, as a bag
  state,        \* state.state, the tagged variant
  allows,       \* allows[], as the set of seats whose entry is true
  stateId,      \* state.stateId
  offerDrawn,   \* history: cards popped from the deck into the open exchange offer
  discarded,    \* history: cards of an offer dropped without being returned to the deck
  gameOvers,    \* history: number of times checkForGameEnd recorded the end of the game
  last,         \* the last handler run: kind, seat, result, snapshots and history enqueued
  ids,          \* history: the participant behind each entry of players[]
  timers,       \* the setTimeout callbacks of emitStateAsync not yet run, in order
  got           \* history: the last snapshot handed to onStateChange

vars == <<players, conn, proxies, roles, deck, state, allows, stateId,
          offerDrawn, discarded, gameOvers, last, ids, timers, got>>

\* ------------------------------------------------------------- utilities
RECURSIVE SumSeq(_)
SumSeq(s) == IF s = <<>> THEN 0 ELSE Head(s) + SumSeq(Tail(s))

Range(s) == {s[i] : i \in DOMAIN s}

RemoveAt(s, i) == [k \in 1..(Len(s) - 1) |-> IF k < i THEN s[k] ELSE s[k + 1]]

\* The deck as a bag: how many entries of the array hold each role, and how many hold
\* undefined (an entry that an exchange put back after a pop of the empty array).
EmptyDeck == [r \in AllRoles \cup {Undef} |-> 0]

\* The number of cards in the deck.
DeckSize(d) == SumSeq([i \in 1..6 |->
                 d[CASE i = 1 -> "duke" [] i = 2 -> "captain" [] i = 3 -> "assassin"
                     [] i = 4 -> "contessa" [] i = 5 -> "ambassador" [] i = 6 -> "inquisitor"]])

\* deck.length
DeckLength(d) == DeckSize(d) + d[Undef]

\* deck.pop() of the shuffled array: the values a pop may return; an empty array pops
\* undefined.
PopChoices(d) ==
  IF DeckLength(d) = 0 THEN {Undef} ELSE {r \in AllRoles \cup {Undef} : d[r] > 0}

PopCard(d, r) == IF d[r] > 0 THEN [d EXCEPT ![r] = @ - 1] ELSE d

PushCard(d, r) == IF r \in AllRoles \cup {Undef} THEN [d EXCEPT ![r] = @ + 1] ELSE d

RECURSIVE PushAll(_, _)
PushAll(d, cards) == IF cards = <<>> THEN d ELSE PushAll(PushCard(d, Head(cards)), Tail(cards))

\* The game record the procedures work on.
Game == [sp |-> players, conn |-> conn, proxies |-> proxies, roles |-> roles,
         deck |-> deck, st |-> state, allows |-> allows, stateId |-> stateId,
         offerDrawn |-> offerDrawn, discarded |-> discarded, gameOvers |-> gameOvers,
         snaps |-> 0, hist |-> 0]

NumPlayers(g) == Len(g.sp)

Out(g, ret) == [g |-> g, ret |-> ret, err |-> NoErr]

Throw(g, msg) == [g |-> g, ret |-> FALSE, err |-> msg]

\* Sequencing: run F on every outcome that did not throw.
Then(S, F(_)) == UNION {IF o.err = NoErr THEN F(o) ELSE {o} : o \in S}

\* The tagged state variant, with every field present (Undef / 0 where the code has none).
StateRec(name, playerIdx, action, target, blockingRole, reason, playerToReveal, exchangeOptions, confession) ==
  [name |-> name, playerIdx |-> playerIdx, action |-> action, target |-> target,
   blockingRole |-> blockingRole, reason |-> reason, playerToReveal |-> playerToReveal,
   exchangeOptions |-> exchangeOptions, confession |-> confession]

BareState(name, playerIdx) ==
  StateRec(name, playerIdx, Undef, 0, Undef, Undef, 0, <<>>, Undef)

\* ------------------------------------------------------------ procedures
\* addHistory: one event is queued for every seat.
AddHistory(g) == [g EXCEPT !.hist = @ + NumPlayers(g)]

\* addHistoryAsync: one event is queued for one seat.
AddHistoryAsync(g) == [g EXCEPT !.hist = @ + 1]

\* emitState as it would be without "state.stateId++".
EmitStateSameId(g) == [g EXCEPT !.snaps = @ + NumPlayers(g)]

\* emitState: the id moves on and one masked snapshot is queued for every seat.
EmitState(g) == [g EXCEPT !.stateId = @ + 1, !.snaps = @ + NumPlayers(g)]

\* setState: the variant is replaced; cards of an exchange offer still open are dropped with it.
SetState(g, s) ==
  [g EXCEPT !.st = s, !.discarded = @ + g.offerDrawn, !.offerDrawn = 0]

\* getInfluence: the roles of the unrevealed slots, in slot order.
GetInfluence(player) ==
  LET unrevealed == SelectSeq(player.influence, LAMBDA inf : ~inf.revealed)
  IN [i \in 1..Len(unrevealed) |-> unrevealed[i].role]

\* indexOfInfluence: the first unrevealed slot with that role, 0 for null.
IndexOfInfluence(player, role) ==
  LET hits == {i \in 1..Len(player.influence) :
                 player.influence[i].role = role /\ ~player.influence[i].revealed}
  IN IF hits = {} THEN 0 ELSE CHOOSE i \in hits : \A k \in hits : i <= k

\* revealFirstInfluence: reveals the first unrevealed slot, if there is one.
RevealFirstInfluence(g, idx) ==
  LET inf == g.sp[idx].influence
      open == {j \in 1..Len(inf) : ~inf[j].revealed}
  IN IF open = {} THEN g
     ELSE LET j == CHOOSE x \in open : \A k \in open : x <= k
          IN [g EXCEPT !.sp[idx].influence[j].revealed = TRUE,
                       !.sp[idx].influenceCount = @ - 1]

LiveSeats(g) == {i \in 1..Len(g.sp) : g.sp[i].influenceCount > 0}

Connected(g, idx) == idx \in DOMAIN g.conn /\ g.conn[idx] # "null"

\* checkForGameEnd: with exactly one live seat the game is won and the end recorded.
CheckForGameEnd(g) ==
  LET live == LiveSeats(g) IN
  IF Cardinality(live) = 1
  THEN LET w == CHOOSE i \in live : TRUE
           g1 == SetState(g, BareState(GAME_WON, w))
       IN IF ~Connected(g1, w)
          THEN {Throw(g1, TypeError)}
          ELSE {Out([g1 EXCEPT !.gameOvers = @ + 1], TRUE)}
  ELSE {Out(g, FALSE)}

\* afterPlayerDeath: reads the connection of the dead seat, logs, checks for the end.
AfterPlayerDeath(g, idx) ==
  IF ~Connected(g, idx)
  THEN {Throw(g, TypeError)}
  ELSE CheckForGameEnd(AddHistory(g))

\* nextPlayerIdx: the first live seat after the turn holder, 0 for null.
NextPlayerIdx(g) ==
  LET n == NumPlayers(g)
      p == g.st.playerIdx
      cand(i) == ((p - 1 + i) % n) + 1
      hits == {i \in 1..(n - 1) : g.sp[cand(i)].influenceCount > 0}
  IN IF hits = {} THEN 0
     ELSE cand(CHOOSE i \in hits : \A k \in hits : i <= k)

\* nextTurn: unless the game is won, the turn passes to nextPlayerIdx().
NextTurn(g) ==
  IF g.st.name # GAME_WON
  THEN IF g.st.playerIdx = 0 /\ NumPlayers(g) > 1
       THEN Throw(g, TypeError)
       ELSE Out(SetState(g, BareState(START_OF_TURN, NextPlayerIdx(g))), TRUE)
  ELSE Out(g, TRUE)

\* swapRole as it would be without "deck.push(role)": the card handed in is lost.
SwapRoleNoPush(d, role) == {<<PopCard(d, r), r>> : r \in PopChoices(d)}

\* swapRole: the card goes back, the deck is shuffled, the top card is drawn.
\* The outcomes are pairs <<deck, drawn card>>.
SwapRole(d, role) ==
  LET d1 == PushCard(d, role)
  IN {<<PopCard(d1, r), r>> : r \in PopChoices(d1)}

\* The RevealInfluence variant as it would be with the turn holder named to reveal.
RevealStateOfHolder(g, as, reason, who) ==
  StateRec(REVEAL_INFLUENCE, g.st.playerIdx, as.action, as.target, as.blockingRole,
           reason, g.st.playerIdx, <<>>, Undef)

\* setState({name: REVEAL_INFLUENCE, ...}): the variant that waits for who to reveal.
RevealState(g, as, reason, who) ==
  StateRec(REVEAL_INFLUENCE, g.st.playerIdx, as.action, as.target, as.blockingRole,
           reason, who, <<>>, Undef)

CardCount(cards) == Cardinality({i \in DOMAIN cards : cards[i] \in AllRoles})

\* playAction: the effect of the action; ret is TRUE when the turn is over.  An index
\* that names no seat (state.players[i] undefined) makes the first property access throw.
PlayAction(g, playerIdx, as) ==
  LET action == actions(as.action)
      g1 == [g EXCEPT !.sp[playerIdx].cash = @ + action.gain]
      t == as.target
  IN
  CASE playerIdx \notin 1..NumPlayers(g) -> {Throw(g, TypeError)}
    [] as.action \notin ActionNames -> {Throw(g, TypeError)}
    [] as.action \in {"assassinate", "coup", "interrogate"} /\ t \notin 1..NumPlayers(g) ->
         {Throw(g1, TypeError)}
    [] as.action = "steal" /\ t \notin 1..NumPlayers(g) -> {Throw(AddHistory(g1), TypeError)}
    [] as.action = "assassinate" ->
         IF g1.sp[t].influenceCount = 1
         THEN Then(AfterPlayerDeath(AddHistory(RevealFirstInfluence(g1, t)), t),
                   LAMBDA o : {Out(o.g, TRUE)})
         ELSE IF g1.sp[t].influenceCount > 1
         THEN {Out(SetState(g1, RevealState(g1, as, "assassinate", t)), FALSE)}
         ELSE {Out(g1, TRUE)}
    [] as.action = "coup" ->
         IF g1.sp[t].influenceCount <= 1
         THEN Then(AfterPlayerDeath(AddHistory(RevealFirstInfluence(g1, t)), t),
                   LAMBDA o : {Out(o.g, TRUE)})
         ELSE {Out(SetState(g1, RevealState(g1, as, "coup", t)), FALSE)}
    [] as.action = "steal" ->
         LET g2 == AddHistory(g1)
         IN IF g2.sp[t].cash >= 2
            THEN LET g3 == [g2 EXCEPT !.sp[t].cash = @ - 2]
                 IN {Out([g3 EXCEPT !.sp[playerIdx].cash = @ + 2], TRUE)}
            ELSE LET g3 == [g2 EXCEPT !.sp[playerIdx].cash = @ + g2.sp[t].cash]
                 IN {Out([g3 EXCEPT !.sp[t].cash = 0], TRUE)}
    [] as.action = "exchange" ->
         UNION {
           LET d1 == PopCard(g1.deck, c1)
               own == GetInfluence(g1.sp[playerIdx])
           IN IF "ambassador" \in Range(g1.roles)
              THEN { LET d2 == PopCard(d1, c2)
                         opts == <<c2, c1>> \o own
                         g2 == SetState([g1 EXCEPT !.deck = d2],
                                 StateRec(EXCHANGE, g1.st.playerIdx, as.action, 0, Undef,
                                          Undef, 0, opts, Undef))
                     IN Out([g2 EXCEPT !.offerDrawn = CardCount(<<c2, c1>>)], FALSE)
                     : c2 \in PopChoices(d1) }
              ELSE { LET opts == <<c1>> \o own
                         g2 == SetState([g1 EXCEPT !.deck = d1],
                                 StateRec(EXCHANGE, g1.st.playerIdx, as.action, 0, Undef,
                                          Undef, 0, opts, Undef))
                     IN Out([g2 EXCEPT !.offerDrawn = CardCount(<<c1>>)], FALSE) }
           : c1 \in PopChoices(g1.deck) }
    [] as.action = "interrogate" ->
         LET influence == GetInfluence(g1.sp[t])
             confessions == IF influence = <<>> THEN {Undef} ELSE Range(influence)
         IN { Out(SetState(g1, StateRec(INTERROGATE, g1.st.playerIdx, as.action,
                                       g1.st.target, Undef, Undef, 0, <<>>, c)), FALSE)
              : c \in confessions }
    [] OTHER -> {Out(AddHistory(g1), TRUE)}

\* "if (f()) nextTurn()": the turn passes when the outcome says the turn is over.
TurnIfOver(S) == Then(S, LAMBDA o : {IF o.ret THEN NextTurn(o.g) ELSE Out(o.g, FALSE)})

\* resetAllows: only the initiating seat is marked.
ResetAllows(g, initiatingPlayerIdx) == [g EXCEPT !.allows = {initiatingPlayerIdx}]

\* everyoneAllows as it would be if one allow beside the initiator's mark were enough.
EveryoneAllowsOnce(g) == Cardinality(g.allows) >= 2

\* everyoneAllows: every seat with influence is marked.
EveryoneAllows(g) ==
  \A i \in 1..NumPlayers(g) : g.sp[i].influenceCount = 0 \/ i \in g.allows

\* allow: ret is TRUE when the state changed.
Allow(g, playerIdx) ==
  IF g.st.name = BLOCK_RESPONSE
  THEN IF g.st.target = playerIdx
       THEN {Throw(g, "Cannot allow your own block")}
       ELSE LET g1 == [g EXCEPT !.allows = @ \cup {playerIdx}]
            IN IF EveryoneAllows(g1)
               THEN {LET o == NextTurn(AddHistory(g1)) IN [o EXCEPT !.ret = (o.err = NoErr)]}
               ELSE {Out(g1, FALSE)}
  ELSE IF g.st.name = ACTION_RESPONSE \/ g.st.name = FINAL_ACTION_RESPONSE
  THEN IF g.st.playerIdx = playerIdx
       THEN {Throw(g, "Cannot allow your own action")}
       ELSE IF g.st.name = FINAL_ACTION_RESPONSE /\ g.st.target # playerIdx
       THEN {Throw(g, "Only the targetted player can allow the action")}
       ELSE LET g1 == IF g.st.name = FINAL_ACTION_RESPONSE THEN g
                      ELSE [g EXCEPT !.allows = @ \cup {playerIdx}]
            IN IF g.st.name # FINAL_ACTION_RESPONSE /\ ~EveryoneAllows(g1)
               THEN {Out(g1, FALSE)}
               ELSE Then(TurnIfOver(PlayAction(g1, g1.st.playerIdx, g1.st)),
                         LAMBDA o : {Out(o.g, TRUE)})
  ELSE {Throw(g, "Incorrect state")}

\* afterSuccessfulChallenge as it would be if a refuted action went ahead like a refuted block.
AfterSuccessfulChallengePlays(g) == PlayAction(g, g.st.playerIdx, g.st)

\* afterSuccessfulChallenge: a refuted block lets the action go ahead, a refuted action ends the turn.
AfterSuccessfulChallenge(g) ==
  IF g.st.blockingRole # Undef
  THEN PlayAction(g, g.st.playerIdx, g.st)
  ELSE {Out(g, TRUE)}

\* afterIncorrectChallenge: the block stands, or the target gets a last chance, or the action goes ahead.
AfterIncorrectChallenge(g) ==
  IF g.st.blockingRole # Undef
  THEN {Out(g, TRUE)}
  ELSE IF g.st.action \notin ActionNames
  THEN {Throw(g, TypeError)}
  ELSE IF actions(g.st.action).blockedBy # {} /\ g.st.target \notin 1..NumPlayers(g)
  THEN {Throw(g, TypeError)}
  ELSE IF actions(g.st.action).blockedBy # {} /\ g.sp[g.st.target].influenceCount > 0
  THEN {Out(SetState(g, StateRec(FINAL_ACTION_RESPONSE, g.st.playerIdx, g.st.action,
                                 g.st.target, Undef, Undef, 0, <<>>, Undef)), FALSE)}
  ELSE PlayAction(g, g.st.playerIdx, g.st)

\* challenge: resolves a challenge of challengedPlayerIdx's claim to challengedRole.
Challenge(g, playerIdx, challengedPlayerIdx, challengedRole) ==
  IF challengedPlayerIdx \notin 1..NumPlayers(g)
  THEN {Throw(g, "Cannot identify challenged player")}
  ELSE
  LET g1 == AddHistory(g)
      influenceIdx == IndexOfInfluence(g1.sp[challengedPlayerIdx], challengedRole)
  IN
  IF influenceIdx # 0
  THEN \* the challenged seat has the role: the challenge is lost
    UNION {
      LET g2 == [g1 EXCEPT !.deck = sw[1],
                           !.sp[challengedPlayerIdx].influence[influenceIdx].role = sw[2]]
      IN IF g2.sp[playerIdx].influenceCount <= 1
         THEN LET g3 == AddHistory(RevealFirstInfluence(g2, playerIdx))
              IN Then(AfterIncorrectChallenge(g3),
                      LAMBDA o : Then(AfterPlayerDeath(o.g, playerIdx),
                                      LAMBDA o2 : {IF o.ret THEN NextTurn(o2.g)
                                                   ELSE Out(o2.g, FALSE)}))
         ELSE {Out(SetState(g2, RevealState(g2, g2.st, "incorrect-challenge", playerIdx)),
                   FALSE)}
      : sw \in SwapRole(g1.deck, g1.sp[challengedPlayerIdx].influence[influenceIdx].role) }
  ELSE \* the challenged seat does not have the role: the challenge is won
    LET wouldLoseTwoInfluences ==
          g1.st.name = BLOCK_RESPONSE /\ g1.st.action = "assassinate"
          /\ g1.st.target = challengedPlayerIdx
    IN IF g1.sp[challengedPlayerIdx].influenceCount <= 1 \/ wouldLoseTwoInfluences
       THEN LET g2 == AddHistory(RevealFirstInfluence(g1, challengedPlayerIdx))
                dead == IF g2.sp[challengedPlayerIdx].influenceCount = 0
                        THEN AfterPlayerDeath(g2, challengedPlayerIdx)
                        ELSE {Out(g2, FALSE)}
            IN Then(dead, LAMBDA o : TurnIfOver(AfterSuccessfulChallenge(o.g)))
       ELSE {Out(SetState(g1, RevealState(g1, g1.st, "successful-challenge",
                                          challengedPlayerIdx)), FALSE)}

\* ------------------------------------------------------- joins and leaves
\* canJoin: a seat joins as a player while the game waits and is not full.
CanJoin(g) == g.st.name = WAITING_FOR_PLAYERS /\ Len(g.sp) < MAX_PLAYERS

NotDealt == [role |-> "not dealt", revealed |-> FALSE]

\* createGameProxy: the handle is (re)bound to the seat index with the real command.
CreateGameProxy(playerIdx) == [idx |-> playerIdx, noop |-> FALSE]

\* playerJoined: the seat is appended, the join is logged and broadcast.
PlayerJoined(g, ai) ==
  LET isObserver == ~CanJoin(g)
      playerState == IF isObserver
                     THEN [cash |-> 0, influenceCount |-> 0, influence |-> <<>>,
                           isObserver |-> TRUE, ai |-> ai]
                     ELSE [cash |-> StartCash, influenceCount |-> 2,
                           influence |-> <<NotDealt, NotDealt>>,
                           isObserver |-> FALSE, ai |-> ai]
      playerIdx == Len(g.sp) + 1
      g1 == [g EXCEPT !.sp = Append(@, playerState),
                      !.conn = Append(@, IF ai THEN "ai" ELSE "human")]
      g2 == EmitState(AddHistory(g1))
      proxy == [CreateGameProxy(playerIdx) EXCEPT !.noop = isObserver]
  IN [g2 EXCEPT !.proxies = Append(@, proxy)]

\* onlyAiLeft as it would be if an AI seat counted as a participant.
OnlyAiLeftNobody(g) == \A i \in DOMAIN g.conn : g.conn[i] = "null"

\* onlyAiLeft: no connected seat is a human.
OnlyAiLeft(g) == \A i \in DOMAIN g.conn : g.conn[i] # "human"

\* destroyGame: the connections and handles are dropped and the state is 'destroyed'.
DestroyGame(g) ==
  SetState([g EXCEPT !.conn = <<>>, !.proxies = <<>>], BareState(DESTROYED, 0))

RECURSIVE AddHistoryTimes(_, _)
AddHistoryTimes(g, n) == IF n = 0 THEN g ELSE AddHistoryTimes(AddHistory(g), n - 1)

\* playerLeft: a lobby seat or an observer is removed; a seat of a running game is kept,
\* loses its influence, and the game is moved on where it waited for that seat.
PlayerLeft(g, playerIdx) ==
  IF playerIdx \notin 1..NumPlayers(g)
  THEN {Throw(g, "Unknown player disconnected")}
  ELSE IF ~Connected(g, playerIdx)
  THEN {Throw(g, TypeError)}
  ELSE
  LET player == g.sp[playerIdx]
      unrevealed == Len(GetInfluence(player))
      finish(h, suffix) ==
        LET h1 == AddHistoryTimes(h, 1 + suffix)
            h2 == IF OnlyAiLeft(h1) THEN DestroyGame(h1) ELSE h1
        IN Out(EmitState(h2), TRUE)
  IN
  IF g.st.name = WAITING_FOR_PLAYERS \/ player.isObserver
  THEN LET g1 == [g EXCEPT !.sp = RemoveAt(@, playerIdx),
                           !.conn = RemoveAt(@, playerIdx),
                           !.proxies = [i \in 1..(Len(@) - 1) |->
                                          IF i < playerIdx THEN @[i]
                                          ELSE CreateGameProxy(i)]]
       IN {finish(g1, 0)}
  ELSE LET g1 == [g EXCEPT !.conn[playerIdx] = "null"]
       IN IF g1.st.name = GAME_WON
          THEN {finish(g1, 0)}
          ELSE
            LET g2 == [g1 EXCEPT
                         !.sp[playerIdx].influence =
                            [j \in 1..Len(@) |-> [@[j] EXCEPT !.revealed = TRUE]],
                         !.sp[playerIdx].influenceCount = 0]
                forward(h) ==
                  IF h.st.playerIdx = playerIdx
                  THEN {NextTurn(h)}
                  ELSE IF h.st.name = REVEAL_INFLUENCE /\ h.st.playerToReveal = playerIdx
                  THEN {NextTurn(h)}
                  ELSE IF (h.st.name = ACTION_RESPONSE \/ h.st.name = BLOCK_RESPONSE)
                          /\ playerIdx \notin h.allows
                  THEN Allow(h, playerIdx)
                  ELSE {Out(h, FALSE)}
            IN Then(Then(CheckForGameEnd(g2),
                         LAMBDA o : IF o.ret THEN {o} ELSE forward(o.g)),
                    LAMBDA o : {finish(o.g, unrevealed)})

\* removeAiPlayer: the last AI seat other than the first seat leaves.
RemoveAiPlayer(g) ==
  LET ais == {i \in 2..Len(g.conn) : g.conn[i] = "ai"}
  IN IF ais = {} THEN {Out(g, TRUE)}
     ELSE PlayerLeft(g, CHOOSE i \in ais : \A k \in ais : k <= i)

\* ------------------------------------------------------------------ start
RolesOf(gameType) ==
  BaseRoles \o <<IF gameType = "inquisitors" THEN "inquisitor" ELSE "ambassador">>

\* buildDeck: three copies of every role in play.
BuildDeck(rs) == [r \in AllRoles \cup {Undef} |-> IF r \in Range(rs) THEN DeckCopies ELSE 0]

\* The deals of the shuffles under consideration: with seed k the n-th seat dealt to gets
\* the (n + k)-th of these hands (first slot, second slot); x is the fifth role in play.
SeedHands(rs) ==
  <<<<"duke", "captain">>, <<"assassin", rs[5]>>, <<"contessa", "duke">>,
    <<"captain", "assassin">>, <<rs[5], "contessa">>, <<"duke", "captain">>>>

Seeds == {0}

\* The dealing loop of start, from seat i on, n seats dealt so far: two pops for every
\* seat that is not an observer.
RECURSIVE Deal(_, _, _, _)
Deal(g, i, n, seed) ==
  IF i > NumPlayers(g) THEN g
  ELSE IF g.sp[i].isObserver THEN Deal(g, i + 1, n, seed)
  ELSE LET h == SeedHands(g.roles)[((n + seed) % 6) + 1]
       IN Deal([g EXCEPT !.deck = PopCard(PopCard(@, h[1]), h[2]),
                         !.sp[i].influence = <<[role |-> h[1], revealed |-> FALSE],
                                               [role |-> h[2], revealed |-> FALSE]>>],
               i + 1, n + 1, seed)

\* start: with enough seats the roles are fixed, the deck built, the hands dealt and the
\* first turn given to one of the seats that are not observers.
Start(g, gameType) ==
  IF g.st.name # WAITING_FOR_PLAYERS
  THEN {Throw(g, "Incorrect state")}
  ELSE IF NumPlayers(g) >= MIN_PLAYERS
  THEN LET rs == RolesOf(gameType)
           g1 == [g EXCEPT !.roles = rs, !.deck = BuildDeck(rs)]
           nonObservers == {i \in 1..NumPlayers(g) : ~g.sp[i].isObserver}
           firsts == IF nonObservers = {} THEN {0} ELSE nonObservers
       IN {Out(SetState(Deal(g1, 1, 0, seed), BareState(START_OF_TURN, f)), TRUE)
           : seed \in Seeds, f \in firsts}
  ELSE {Out(g, TRUE)}

\* getGameRole: the first role in play among the given roles.
GetGameRole(g, rs) ==
  LET hits == {i \in 1..Len(g.roles) : g.roles[i] \in rs}
  IN IF hits = {} THEN Undef ELSE g.roles[CHOOSE i \in hits : \A k \in hits : i <= k]

\* arrayDifference: array minus the elements of subarray, each once; ok is FALSE when
\* an element of subarray is missing.
RECURSIVE ArrayDifference(_, _)
ArrayDifference(array, subarray) ==
  IF subarray = <<>> THEN [ok |-> TRUE, rest |-> array]
  ELSE LET hits == {i \in 1..Len(array) : array[i] = Head(subarray)}
       IN IF hits = {} THEN [ok |-> FALSE, rest |-> <<>>]
          ELSE ArrayDifference(RemoveAt(array, CHOOSE i \in hits : \A k \in hits : i <= k),
                               Tail(subarray))

\* The assignment loop of the exchange command: every unrevealed slot, in slot order,
\* takes the last remaining element of command.roles.
RECURSIVE AssignRoles(_, _, _)
AssignRoles(influence, i, rs) ==
  IF i > Len(influence) THEN influence
  ELSE IF influence[i].revealed THEN AssignRoles(influence, i + 1, rs)
  ELSE IF rs = <<>> THEN AssignRoles([influence EXCEPT ![i].role = Undef], i + 1, rs)
  ELSE AssignRoles([influence EXCEPT ![i].role = rs[Len(rs)]], i + 1,
                   SubSeq(rs, 1, Len(rs) - 1))

\* ---------------------------------------------------------------- command
\* The payload of a command; fields a command kind does not read keep a default.
Payload(sid, kind) ==
  [stateId |-> sid, command |-> kind, action |-> Undef, target |-> 0, role |-> Undef,
   blockingRole |-> Undef, hasRoles |-> FALSE, roles |-> <<>>, forceExchange |-> FALSE,
   gameType |-> "original"]

\* The play-action branch of command.
CmdPlayAction(g, playerIdx, c) ==
  LET player == g.sp[playerIdx] IN
  IF g.st.name # START_OF_TURN THEN {Throw(g, "Incorrect state")}
  ELSE IF g.st.playerIdx # playerIdx THEN {Throw(g, "Not your turn")}
  ELSE IF c.action \notin ActionNames THEN {Throw(g, "Unknown action")}
  ELSE
  LET action == actions(c.action) IN
  IF action.roles # {} /\ GetGameRole(g, action.roles) = Undef
  THEN {Throw(g, "Action not allowed in this game")}
  ELSE IF player.cash >= CoupThreshold /\ c.action # "coup"
  THEN {Throw(g, "You must coup with >= 10 cash")}
  ELSE IF player.cash < action.cost THEN {Throw(g, "Not enough cash")}
  ELSE IF action.targeted /\ c.target = 0 THEN {Throw(g, "No target specified")}
  ELSE IF action.targeted /\ (c.target < 1 \/ c.target > NumPlayers(g))
  THEN {Throw(g, "Invalid target specified")}
  ELSE IF action.targeted /\ g.sp[c.target].influenceCount = 0
  THEN {Throw(g, "Cannot target dead player")}
  ELSE
  LET g1 == [g EXCEPT !.sp[playerIdx].cash = @ - action.cost] IN
  IF action.roles = {} /\ action.blockedBy = {}
  THEN TurnIfOver(PlayAction(g1, playerIdx, c))
  ELSE {Out(ResetAllows(SetState(g1, StateRec(ACTION_RESPONSE, playerIdx, c.action,
                                              c.target, Undef, Undef, 0, <<>>, Undef)),
                        playerIdx), TRUE)}

\* The challenge branch of command.
CmdChallenge(g, playerIdx, c) ==
  IF g.sp[playerIdx].influenceCount = 0 THEN {Throw(g, "Dead players cannot challenge")}
  ELSE IF g.st.name = ACTION_RESPONSE
  THEN IF playerIdx = g.st.playerIdx THEN {Throw(g, "Cannot challenge your own action")}
       ELSE IF g.st.action \notin ActionNames THEN {Throw(g, "Unknown action")}
       ELSE IF actions(g.st.action).roles = {} THEN {Throw(g, "Action cannot be challenged")}
       ELSE Challenge(g, playerIdx, g.st.playerIdx,
                      GetGameRole(g, actions(g.st.action).roles))
  ELSE IF g.st.name = BLOCK_RESPONSE
  THEN IF playerIdx = g.st.target THEN {Throw(g, "Cannot challenge your own block")}
       ELSE Challenge(g, playerIdx, g.st.target, g.st.blockingRole)
  ELSE {Throw(g, "Incorrect state")}

\* The reveal branch of command; it broadcasts on its own and returns.
CmdReveal(g, playerIdx, c) ==
  IF g.st.name # REVEAL_INFLUENCE THEN {Throw(g, "Incorrect state")}
  ELSE IF g.st.playerToReveal # playerIdx
  THEN {Throw(g, "Not your turn to reveal an influence")}
  ELSE
  LET i == IndexOfInfluence(g.sp[playerIdx], c.role) IN
  IF i = 0 THEN {Throw(g, "Could not reveal role")}
  ELSE
  LET g1 == AddHistory([g EXCEPT !.sp[playerIdx].influence[i].revealed = TRUE,
                                 !.sp[playerIdx].influenceCount = @ - 1])
      after == IF g1.st.reason = "incorrect-challenge"
               THEN TurnIfOver(AfterIncorrectChallenge(g1))
               ELSE IF g1.st.reason = "successful-challenge"
               THEN TurnIfOver(AfterSuccessfulChallenge(g1))
               ELSE {NextTurn(g1)}
  IN Then(after, LAMBDA o : {Out(EmitState(o.g), FALSE)})

\* The block branch of command.
CmdBlock(g, playerIdx, c) ==
  IF g.sp[playerIdx].influenceCount = 0 THEN {Throw(g, "Dead players cannot block")}
  ELSE IF g.st.name # ACTION_RESPONSE /\ g.st.name # FINAL_ACTION_RESPONSE
  THEN {Throw(g, "Incorrect state")}
  ELSE IF g.st.action \notin ActionNames THEN {Throw(g, "Unknown action")}
  ELSE IF playerIdx = g.st.playerIdx THEN {Throw(g, "Cannot block your own action")}
  ELSE IF actions(g.st.action).blockedBy = {} THEN {Throw(g, "Action cannot be blocked")}
  ELSE IF c.blockingRole = Undef THEN {Throw(g, "No blocking role specified")}
  ELSE IF c.blockingRole \notin Range(g.roles) THEN {Throw(g, "Role not valid in this game")}
  ELSE IF c.blockingRole \notin actions(g.st.action).blockedBy
  THEN {Throw(g, "Action cannot be blocked by that role")}
  ELSE
  LET g1 == IF g.st.name = ACTION_RESPONSE THEN AddHistory(g) ELSE g
  IN {Out(ResetAllows(SetState(g1, StateRec(BLOCK_RESPONSE, g1.st.playerIdx, g1.st.action,
                                            playerIdx, c.blockingRole, Undef, 0, <<>>,
                                            Undef)),
                      playerIdx), TRUE)}

\* The allow branch of command; ret is FALSE when it returns without a broadcast.
CmdAllow(g, playerIdx, c) ==
  IF g.sp[playerIdx].influenceCount = 0
  THEN {Throw(g, "Dead players cannot allow actions")}
  ELSE Allow(g, playerIdx)

\* The exchange branch of command.
CmdExchange(g, playerIdx, c) ==
  IF g.st.name # EXCHANGE THEN {Throw(g, "Incorrect state")}
  ELSE IF g.st.playerIdx # playerIdx THEN {Throw(g, "Not your turn")}
  ELSE IF ~c.hasRoles THEN {Throw(g, "Must specify roles to exchange")}
  ELSE IF Len(c.roles) # g.sp[playerIdx].influenceCount
  THEN {Throw(g, "Wrong number of roles")}
  ELSE
  LET unchosen == ArrayDifference(g.st.exchangeOptions, c.roles) IN
  IF ~unchosen.ok THEN {Throw(g, "Invalid choice of roles")}
  ELSE
  LET g1 == [g EXCEPT !.sp[playerIdx].influence = AssignRoles(@, 1, c.roles),
                      !.deck = PushAll(@, unchosen.rest),
                      !.offerDrawn = 0]
  IN {NextTurn(AddHistory(g1))}

\* The interrogate branch of command.
CmdInterrogate(g, playerIdx, c) ==
  IF g.st.name # INTERROGATE THEN {Throw(g, "Incorrect state")}
  ELSE IF g.st.playerIdx # playerIdx THEN {Throw(g, "Not your turn")}
  ELSE
  LET g1 == AddHistoryAsync(g) IN
  IF c.forceExchange
  THEN IF g1.st.target \notin 1..NumPlayers(g1) THEN {Throw(g1, TypeError)}
       ELSE
       LET idx == IndexOfInfluence(g1.sp[g1.st.target], g1.st.confession) IN
       IF idx = 0 THEN {Throw(g1, "Target does not have the confessed role")}
       ELSE {NextTurn(AddHistory([g1 EXCEPT !.deck = sw[1],
                                            !.sp[g1.st.target].influence[idx].role = sw[2]]))
             : sw \in SwapRole(g1.deck, g1.st.confession)}
  ELSE {NextTurn(AddHistory(g1))}

\* The stale test as it would be with ">" for "!=": only ids of the future are refused.
IsStaleFuture(g, c) == c.stateId > g.stateId

\* The test at the head of command: the payload was not made for the current state.
IsStale(g, c) == c.stateId # g.stateId

\* command: the dispatcher.  An outcome without error has been broadcast, except an
\* allow that left the state as it was.
Command(g, playerIdx, c) ==
  IF playerIdx \notin 1..NumPlayers(g) THEN {Throw(g, "Unknown player")}
  ELSE IF IsStale(g, c) THEN {Throw(g, "Stale state")}
  ELSE
  LET emit(S) == Then(S, LAMBDA o : {Out(EmitState(o.g), TRUE)}) IN
  CASE c.command = "start" -> emit(Start(g, c.gameType))
    [] c.command = "add-ai" ->
         IF g.st.name # WAITING_FOR_PLAYERS THEN {Throw(g, "Incorrect state")}
         ELSE emit({Out(PlayerJoined(g, TRUE), TRUE)})
    [] c.command = "remove-ai" ->
         IF g.st.name # WAITING_FOR_PLAYERS THEN {Throw(g, "Incorrect state")}
         ELSE emit(RemoveAiPlayer(g))
    [] c.command = "play-action" -> emit(CmdPlayAction(g, playerIdx, c))
    [] c.command = "challenge" -> emit(CmdChallenge(g, playerIdx, c))
    [] c.command = "reveal" -> CmdReveal(g, playerIdx, c)
    [] c.command = "block" -> emit(CmdBlock(g, playerIdx, c))
    [] c.command = "allow" ->
         Then(CmdAllow(g, playerIdx, c),
              LAMBDA o : {IF o.ret THEN Out(EmitState(o.g), TRUE) ELSE Out(o.g, FALSE)})
    [] c.command = "exchange" -> emit(CmdExchange(g, playerIdx, c))
    [] c.command = "interrogate" -> emit(CmdInterrogate(g, playerIdx, c))
    [] OTHER -> {Throw(g, "Unknown command")}

\* maskState, inner loop, as it would be with the test on "revealed" inverted.
MaskInfluenceRevealed(influence) ==
  [j \in 1..Len(influence) |->
     IF influence[j].revealed THEN [influence[j] EXCEPT !.role = "unknown"]
     ELSE influence[j]]

\* maskState, inner loop: every unrevealed role of the seat reads "unknown".
MaskInfluence(influence) ==
  [j \in 1..Len(influence) |->
     IF ~influence[j].revealed THEN [influence[j] EXCEPT !.role = "unknown"]
     ELSE influence[j]]

\* maskState: the snapshot sent to seat playerIdx.  The deck is not part of the state
\* object and so of no snapshot.
MaskState(g, playerIdx) ==
  [stateId |-> g.stateId,
   players |-> [i \in 1..Len(g.sp) |->
                  IF i # playerIdx THEN [g.sp[i] EXCEPT !.influence = MaskInfluence(@)]
                  ELSE g.sp[i]],
   numPlayers |-> NumPlayers(g),
   roles |-> g.roles,
   state |-> IF g.st.playerIdx # playerIdx
             THEN [g.st EXCEPT !.exchangeOptions = <<>>, !.confession = Undef]
             ELSE g.st,
   playerIdx |-> playerIdx]

\* ------------------------------------------------------- the state machine
Init ==
  /\ players = <<>>
  /\ conn = <<>>
  /\ proxies = <<>>
  /\ roles = <<>>
  /\ deck = EmptyDeck
  /\ state = BareState(WAITING_FOR_PLAYERS, 0)
  /\ allows = {}
  /\ stateId = 1
  /\ offerDrawn = 0
  /\ discarded = 0
  /\ gameOvers = 0
  /\ last = [kind |-> "create", seat |-> 0, res |-> "ok", snaps |-> 0, hist |-> 0]
  /\ ids = <<>>
  /\ timers = <<>>
  /\ got = [to |-> 0, for |-> 0, viewer |-> 0, shown |-> {}]

\* The result of a handler as it is recorded: ok, a rejection
\* by a GameException, or a TypeError of the runtime.
ErrorClass(err) ==
  IF err = NoErr THEN "ok"
  ELSE IF err = TypeError THEN err
  ELSE "error"

\* The record of the last handler that changed the game or queued a message.  A command
\* rejected before it did either leaves no trace: it is a stuttering step.
LastOf(o, kind, seat) ==
  IF o.err # NoErr /\ o.g = Game THEN last
  ELSE [kind |-> kind, seat |-> seat, res |-> ErrorClass(o.err),
        snaps |-> o.g.snaps, hist |-> o.g.hist]

\* What a handler leaves behind: the game as it stands at its return or throw, and the
\* record of the handler.
ApplyGame(r) ==
  /\ players' = r.g.sp
  /\ conn' = r.g.conn
  /\ proxies' = r.g.proxies
  /\ roles' = r.g.roles
  /\ deck' = r.g.deck
  /\ state' = r.g.st
  /\ allows' = r.g.allows
  /\ stateId' = r.g.stateId
  /\ offerDrawn' = r.g.offerDrawn
  /\ discarded' = r.g.discarded
  /\ gameOvers' = r.g.gameOvers
  /\ last' = r.last

\* A handler whose deferred deliveries are not followed.
Apply(r) == ApplyGame(r) /\ UNCHANGED <<ids, timers, got>>

Commit(o, kind, seat) == Apply([g |-> o.g, last |-> LastOf(o, kind, seat)])

\* The handles through which a connected participant acts.
Handles == {j \in DOMAIN proxies : j \in DOMAIN conn /\ conn[j] # "null"}

\* proxy.command(payload) on handle j: the observer's handle does nothing.
Submit(j, c) ==
  IF proxies[j].noop
  THEN {[g |-> Game, last |-> last]}
  ELSE {[g |-> o.g, last |-> LastOf(o, c.command, proxies[j].idx)] :
          o \in Command(Game, proxies[j].idx, c)}

\* Some connected participant submits one of the payloads.
SubmitAny(payloads) ==
  \E r \in UNION {Submit(j, c) : j \in Handles, c \in payloads} : Apply(r)

\* The payloads of each command kind.  Where the state rejects a kind whatever its
\* arguments, one payload stands for all of them.
ActionInputs == ActionNames \cup {"bribe"}

PlayPayloads(sid) ==
  IF state.name # START_OF_TURN THEN {Payload(sid, "play-action")}
  ELSE {[Payload(sid, "play-action") EXCEPT !.action = a, !.target = t] :
          a \in ActionInputs, t \in 0..(Len(players) + 1)}

RevealPayloads(sid) ==
  IF state.name # REVEAL_INFLUENCE THEN {Payload(sid, "reveal")}
  ELSE {[Payload(sid, "reveal") EXCEPT !.role = r] : r \in AllRoles}

BlockPayloads(sid) ==
  IF state.name \notin {ACTION_RESPONSE, FINAL_ACTION_RESPONSE} THEN {Payload(sid, "block")}
  ELSE {[Payload(sid, "block") EXCEPT !.blockingRole = r] : r \in AllRoles \cup {Undef}}

RoleLists == {<<>>} \cup {<<a>> : a \in Range(roles)}
             \cup {<<a, b>> : a \in Range(roles), b \in Range(roles)}

ExchangePayloads(sid) ==
  IF state.name # EXCHANGE THEN {Payload(sid, "exchange")}
  ELSE {Payload(sid, "exchange")}
       \cup {[Payload(sid, "exchange") EXCEPT !.hasRoles = TRUE, !.roles = rs] :
               rs \in RoleLists}

InterrogatePayloads(sid) ==
  {[Payload(sid, "interrogate") EXCEPT !.forceExchange = f] : f \in BOOLEAN}

StartPayloads(sid) == {[Payload(sid, "start") EXCEPT !.gameType = t] : t \in GameTypes}

AllPayloads(sid) ==
  StartPayloads(sid) \cup PlayPayloads(sid) \cup RevealPayloads(sid) \cup BlockPayloads(sid)
  \cup ExchangePayloads(sid) \cup InterrogatePayloads(sid)
  \cup {Payload(sid, k) : k \in {"add-ai", "remove-ai", "challenge", "allow", "dance"}}

CommandKinds ==
  {"start", "add-ai", "remove-ai", "play-action", "challenge", "reveal", "block", "allow",
   "exchange", "interrogate"}

\* A participant joins (the game has not been destroyed and dropped by its owner).
JoinUpTo(maxSeats, maxId) ==
  /\ state.name # DESTROYED
  /\ Len(players) < maxSeats
  /\ stateId < maxId
  /\ Commit(Out(PlayerJoined(Game, FALSE), TRUE), "join", Len(players) + 1)

\* A connected human participant leaves through its handle.
LeaveUpTo(maxId) ==
  /\ stateId < maxId
  /\ \E j \in Handles :
       /\ conn[j] = "human"
       /\ \E o \in PlayerLeft(Game, proxies[j].idx) : Commit(o, "leave", proxies[j].idx)

StartUpTo(maxId) ==
  /\ stateId < maxId
  /\ SubmitAny(StartPayloads(stateId))

Join == JoinUpTo(MaxSeats, MaxStateId)

Leave == LeaveUpTo(MaxStateId)

CmdStart == StartUpTo(MaxStateId)

CmdPlay ==
  /\ stateId < MaxStateId
  /\ SubmitAny(PlayPayloads(stateId))

CmdChallengeA ==
  /\ stateId < MaxStateId
  /\ SubmitAny({Payload(stateId, "challenge")})

CmdRevealA ==
  /\ stateId < MaxStateId
  /\ SubmitAny(RevealPayloads(stateId))

CmdBlockA ==
  /\ stateId < MaxStateId
  /\ SubmitAny(BlockPayloads(stateId))

CmdAllowA ==
  /\ stateId < MaxStateId
  /\ SubmitAny({Payload(stateId, "allow")})

CmdExchangeA ==
  /\ stateId < MaxStateId
  /\ SubmitAny(ExchangePayloads(stateId))

CmdInterrogateA ==
  /\ stateId < MaxStateId
  /\ SubmitAny(InterrogatePayloads(stateId))

\* A command that is not a command, and a command sent against a state already replaced.
CmdUnknown ==
  /\ stateId < MaxStateId
  /\ SubmitAny({Payload(stateId, "dance")})

CmdStale ==
  /\ stateId < MaxStateId
  /\ SubmitAny({Payload(stateId - 1, k) : k \in CommandKinds})

Next ==
  \/ Join
  \/ Leave
  \/ CmdStart
  \/ CmdPlay
  \/ CmdChallengeA
  \/ CmdRevealA
  \/ CmdBlockA
  \/ CmdAllowA
  \/ CmdExchangeA
  \/ CmdInterrogateA
  \/ CmdUnknown
  \/ CmdStale

Spec == Init /\ [][Next]_vars

\* The lobby with room for an observer: a seventh participant may join a full game
\* before the start, and an AI seat may be added and removed.  Participants join before the start only, the start is explored
\* with at most MaxLobbyStart seats present, and the game that follows by its turn
\* actions.
LobbyJoin == state.name = WAITING_FOR_PLAYERS /\ JoinUpTo(MaxLobbySeats, MaxLobbyId)

LobbyLeave == LeaveUpTo(MaxLobbyId)

LobbyStart == Len(players) <= MaxLobbyStart /\ StartUpTo(MaxLobbyId)

LobbyPlay ==
  /\ stateId < MaxLobbyId
  /\ SubmitAny(PlayPayloads(stateId))

LobbyAddAi ==
  /\ stateId < MaxLobbyId
  /\ Len(players) < MaxLobbySeats
  /\ Cardinality({i \in DOMAIN conn : conn[i] = "ai"}) < MaxLobbyAi
  /\ SubmitAny({Payload(stateId, "add-ai")})

LobbyRemoveAi ==
  /\ stateId < MaxLobbyId
  /\ SubmitAny({Payload(stateId, "remove-ai")})

LobbyNext ==
  LobbyJoin \/ LobbyLeave \/ LobbyStart \/ LobbyPlay \/ LobbyAddAi \/ LobbyRemoveAi

SpecLobby == Init /\ [][LobbyNext]_vars

\* The full table: MaxDeckSeats participants join and start; the seat on turn plays
\* exchange, the others allow or (late in the game) challenge, and the seat holding the
\* offer hands in a choice or leaves.
DeckJoin == state.name = WAITING_FOR_PLAYERS /\ JoinUpTo(MaxDeckSeats, MaxDeckId)

DeckStart == Len(players) = MaxDeckSeats /\ StartUpTo(MaxDeckId)

DeckPlay ==
  /\ stateId < MaxDeckId
  /\ SubmitAny({[Payload(stateId, "play-action") EXCEPT !.action = "exchange"]})

DeckAllow ==
  /\ stateId < MaxDeckId
  /\ SubmitAny({Payload(stateId, "allow")})

DeckExchange ==
  /\ stateId < MaxDeckId
  /\ SubmitAny(ExchangePayloads(stateId))

DeckLeave ==
  /\ stateId < MaxDeckId
  /\ state.name = EXCHANGE
  /\ \E j \in Handles :
       /\ proxies[j].idx = state.playerIdx
       /\ \E o \in PlayerLeft(Game, proxies[j].idx) : Commit(o, "leave", proxies[j].idx)

\* A claim is challenged once a pop of the empty deck has put an undefined entry back.
DeckChallenge ==
  /\ stateId < MaxDeckId
  /\ deck[Undef] > 0
  /\ SubmitAny({Payload(stateId, "challenge")})

DeckNext ==
  DeckJoin \/ DeckStart \/ DeckPlay \/ DeckAllow \/ DeckExchange \/ DeckLeave \/ DeckChallenge

SpecDeck == Init /\ [][DeckNext]_vars

\* The seat shift: a full lobby empties from its first seat and fills again, so that an
\* observer comes to sit before players; the game starts, the seat on turn plays exchange
\* and the others allow or challenge; observers leave at any time and players at the
\* start of a turn, and participants join the running game while an exchange offer is open.
ShiftJoin ==
  /\ state.name \in {WAITING_FOR_PLAYERS, EXCHANGE}
  /\ JoinUpTo(MaxLobbySeats, MaxShiftId)

ShiftLeave ==
  /\ stateId < MaxShiftId
  /\ \E j \in Handles :
       /\ IF state.name = WAITING_FOR_PLAYERS THEN j = 1
          ELSE players[j].isObserver \/ state.name = START_OF_TURN
       /\ \E o \in PlayerLeft(Game, proxies[j].idx) : Commit(o, "leave", proxies[j].idx)

ShiftStart == Len(players) <= MaxShiftStart /\ StartUpTo(MaxShiftId)

ShiftPlay ==
  /\ stateId < MaxShiftId
  /\ SubmitAny({[Payload(stateId, "play-action") EXCEPT !.action = "exchange"]})

ShiftAllow ==
  /\ stateId < MaxShiftId
  /\ SubmitAny({Payload(stateId, "allow")})

ShiftChallenge ==
  /\ stateId < MaxShiftId
  /\ SubmitAny({Payload(stateId, "challenge")})

ShiftNext ==
  ShiftJoin \/ ShiftLeave \/ ShiftStart \/ ShiftPlay \/ ShiftAllow \/ ShiftChallenge

SpecShift == Init /\ [][ShiftNext]_vars

\* The deferred deliveries: emitState hands every masked snapshot to setTimeout, and the
\* callback looks the receiver up in players[] only when it runs.  Handlers and callbacks
\* interleave; callbacks run in the order in which they were set.

\* The callbacks emitState sets at the end of a handler: one per seat, each with the
\* index it captured and the snapshot masked for that index (and, as history, the
\* participant sitting at the index when the snapshot was masked).
EmitStateAsync(g, who) ==
  [i \in 1..Len(g.sp) |-> [dest |-> i, for |-> who[i], snap |-> MaskState(g, i)]]

\* players.splice(k, 1) as it moves the participants.
SpliceOut(who, k) == [i \in 1..(Len(who) - 1) |-> IF i < k THEN who[i] ELSE who[i + 1]]

\* The seats whose unrevealed cards a snapshot shows with their roles.
ShownSeats(snap) ==
  {i \in DOMAIN snap.players :
     \E j \in DOMAIN snap.players[i].influence :
       /\ ~snap.players[i].influence[j].revealed
       /\ snap.players[i].influence[j].role \in AllRoles}

\* What a handler leaves behind when its deliveries are followed.
AsyncCommit(o, kind, seat, who) ==
  /\ Len(timers) + (IF o.g.snaps > 0 THEN Len(o.g.sp) ELSE 0) <= MaxTimers
  /\ ApplyGame([g |-> o.g, last |-> LastOf(o, kind, seat)])
  /\ ids' = who
  /\ timers' = timers \o (IF o.g.snaps > 0 THEN EmitStateAsync(o.g, who) ELSE <<>>)
  /\ UNCHANGED got

\* A participant joins; it is known by the stateId at which it joined.
AsyncJoin ==
  /\ state.name # DESTROYED
  /\ Len(players) < MaxAsyncSeats
  /\ stateId < MaxAsyncId
  /\ AsyncCommit(Out(PlayerJoined(Game, FALSE), TRUE), "join", Len(players) + 1,
                 Append(ids, stateId))

AsyncLeave ==
  /\ stateId < MaxAsyncId
  /\ \E j \in Handles : \E o \in PlayerLeft(Game, proxies[j].idx) :
       AsyncCommit(o, "leave", proxies[j].idx,
                   IF Len(o.g.sp) < Len(players) THEN SpliceOut(ids, proxies[j].idx) ELSE ids)

AsyncCommand ==
  /\ stateId < MaxAsyncId
  /\ \E j \in Handles :
       \E c \in StartPayloads(stateId) \cup PlayPayloads(stateId) \cup {Payload(stateId, "allow")} :
         /\ ~proxies[j].noop
         /\ \E o \in Command(Game, proxies[j].idx, c) :
              AsyncCommit(o, c.command, proxies[j].idx, ids)

\* The callback of emitStateAsync: the oldest pending one runs and hands its snapshot to
\* whoever is at players[playerIdx] now, if anyone.
StateTimeout ==
  /\ timers # <<>>
  /\ LET t == Head(timers) IN
     /\ timers' = Tail(timers)
     /\ got' = IF Connected(Game, t.dest)
               THEN [to |-> ids[t.dest], for |-> t.for, viewer |-> t.snap.playerIdx,
                     shown |-> ShownSeats(t.snap)]
               ELSE got
  /\ UNCHANGED <<players, conn, proxies, roles, deck, state, allows, stateId,
                 offerDrawn, discarded, gameOvers, last, ids>>

AsyncNext == AsyncJoin \/ AsyncLeave \/ AsyncCommand \/ StateTimeout

SpecAsync == Init /\ [][AsyncNext]_vars

\* ------------------------------------------------------------ properties
Seats == 1..Len(players)

Dealt == roles # <<>>

\* The influence slots that hold a card, of one kind (revealed or not).
Slots(revealed) ==
  {<<i, j>> \in Seats \X (1..2) :
     /\ j \in DOMAIN players[i].influence
     /\ players[i].influence[j].revealed = revealed
     /\ players[i].influence[j].role \in AllRoles}

\* The stateIds a payload may carry other than the current one: the first, the one
\* before and the one after.
OtherIds == {1, stateId - 1, stateId + 1} \ {stateId}

\* Payloads of every kind, bare and with their arguments filled in.
StalePayloads(sid) ==
  {Payload(sid, k) : k \in CommandKinds \cup {"dance"}}
  \cup {[Payload(sid, k) EXCEPT !.action = "steal", !.target = 1, !.role = "duke",
                                !.blockingRole = "duke", !.hasRoles = TRUE,
                                !.roles = <<"duke">>, !.forceExchange = TRUE] :
          k \in CommandKinds}

C2_StaleRejected ==
  LET g == Game IN
  \A sid \in OtherIds : \A c \in StalePayloads(sid) : \A idx \in Seats :
    \A o \in Command(g, idx, c) : o.err = "Stale state" /\ o.g = g

\* A state was replaced, and a payload that is accepted with the current stateId is
\* refused with the one before.
C2_Witness ==
  /\ stateId > 1
  /\ state.name # WAITING_FOR_PLAYERS
  /\ \E idx \in Seats : \E c \in AllPayloads(stateId) :
       /\ \E o \in Command(Game, idx, c) : o.err = NoErr /\ o.g.st # state
       /\ \A o \in Command(Game, idx, [c EXCEPT !.stateId = stateId - 1]) :
            o.err = "Stale state"

\* C3 as worded: every accepted command raises stateId by exactly 1, every rejected
\* command leaves it as it was.  (Stated for the commands other than add-ai, whose seat
\* is made outside game.js.)
C3_Original ==
  \A idx \in Seats : \A c \in AllPayloads(stateId) : \A o \in Command(Game, idx, c) :
    c.command # "add-ai" =>
      o.g.stateId = IF o.err = NoErr THEN stateId + 1 ELSE stateId

\* The rise of stateId by an accepted command: none for an allow that leaves the state
\* waiting for more allows, two for an add-ai or remove-ai that adds or removes a seat
\* (the join or leave broadcasts, then the command does), one otherwise.
C3_Rise(c, o) ==
  IF c.command = "allow" /\ o.g.st = state THEN 0
  ELSE IF c.command \in {"add-ai", "remove-ai"} /\ Len(o.g.sp) # Len(players) THEN 2
  ELSE 1

\* C3: every rejected command leaves stateId as it was, and every accepted command
\* raises it by exactly 1, except that an allow which does not complete the allows
\* leaves it as it was and an add-ai or remove-ai which adds or removes a seat raises
\* it by 2.
C3_StateIdStep ==
  \A idx \in Seats : \A c \in AllPayloads(stateId) : \A o \in Command(Game, idx, c) :
    o.g.stateId = IF o.err = NoErr THEN stateId + C3_Rise(c, o) ELSE stateId

\* An allow was accepted without a broadcast, a state in which another command is
\* accepted with a rise of one.
C3_Witness ==
  /\ last.kind = "allow" /\ last.res = "ok" /\ last.snaps = 0
  /\ state.name = ACTION_RESPONSE
  /\ \E idx \in Seats : \E c \in AllPayloads(stateId) : \E o \in Command(Game, idx, c) :
       o.err = NoErr /\ o.g.stateId = stateId + 1

\* C4: in the snapshot for seat v every unrevealed role of another seat reads "unknown",
\* and the snapshot is the same whatever the unrevealed roles of the other seats and
\* whatever the deck.
C4_Masking ==
  \A v \in Seats :
    LET m == MaskState(Game, v) IN
    /\ \A i \in Seats \ {v} : \A j \in DOMAIN players[i].influence :
         ~players[i].influence[j].revealed => m.players[i].influence[j].role = "unknown"
    /\ \A i \in Seats \ {v} : \A j \in DOMAIN players[i].influence : \A r \in AllRoles :
         ~players[i].influence[j].revealed =>
           MaskState([Game EXCEPT !.sp[i].influence[j].role = r], v) = m
    /\ \A r \in AllRoles : MaskState([Game EXCEPT !.deck = PushCard(deck, r)], v) = m

\* A seat looks at an exchange of another seat that holds unrevealed cards.
C4_Witness ==
  /\ state.name = EXCHANGE
  /\ state.exchangeOptions # <<>>
  /\ \E v \in Seats \ {state.playerIdx} :
       /\ Connected(Game, v)
       /\ <<state.playerIdx, 1>> \in Slots(FALSE)
       /\ MaskState(Game, v).state.exchangeOptions = <<>>

\* C5 as worded: in every StartOfTurn state playerIdx names an existing seat with
\* influenceCount > 0.
C5_Original ==
  state.name = START_OF_TURN =>
    state.playerIdx \in Seats /\ players[state.playerIdx].influenceCount > 0

\* The seats whose command the state waits for.
Awaited ==
  CASE state.name \in {START_OF_TURN, EXCHANGE, INTERROGATE} -> {state.playerIdx}
    [] state.name = REVEAL_INFLUENCE -> {state.playerToReveal}
    [] state.name = FINAL_ACTION_RESPONSE -> {state.target}
    [] state.name = ACTION_RESPONSE -> LiveSeats(Game) \ (allows \cup {state.playerIdx})
    [] state.name = BLOCK_RESPONSE -> LiveSeats(Game) \ (allows \cup {state.target})
    [] OTHER -> {}

\* C6 as worded: the state never waits for the command of a seat that has left.
C6_Original == \A i \in Awaited : Connected(Game, i)

\* C7 as worded: in a game that was started, whenever exactly one seat has
\* influenceCount > 0 the state is GameWon with that seat as playerIdx, or Destroyed.
C7_Original ==
  (Dealt /\ Cardinality(LiveSeats(Game)) = 1) =>
    \/ state.name = DESTROYED
    \/ state.name = GAME_WON /\ state.playerIdx \in LiveSeats(Game)

\* C8 as worded: a command that is rejected leaves the game as it was and queues
\* neither a snapshot nor a history event for any seat.
C8_Original ==
  \A idx \in Seats : \A c \in AllPayloads(stateId) : \A o \in Command(Game, idx, c) :
    o.err \notin {NoErr, TypeError} => o.g = Game

\* C9 as worded: cards are dealt only to a game with at least 2 seats that are not
\* observers.
C9_Original ==
  Dealt => Cardinality({i \in Seats : ~players[i].isObserver}) >= MIN_PLAYERS

\* C10 as worded: in FinalActionResponse a block or an allow of any seat other than the
\* target is rejected.  (Stated for an action aimed at another seat than the actor's.)
C10_Original ==
  (state.name = FINAL_ACTION_RESPONSE /\ state.target # state.playerIdx) =>
    \A idx \in Seats \ {state.target} :
      \A c \in BlockPayloads(stateId) \cup {Payload(stateId, "allow")} :
        \A o \in Command(Game, idx, c) : o.err # NoErr

\* The seat whose claim may be challenged, and the role it claims.
ChallengeOpen ==
  \/ state.name = BLOCK_RESPONSE
  \/ state.name = ACTION_RESPONSE /\ state.action \in ActionNames
       /\ actions(state.action).roles # {}

Challenged == IF state.name = BLOCK_RESPONSE THEN state.target ELSE state.playerIdx

ClaimedRole ==
  IF state.name = BLOCK_RESPONSE THEN state.blockingRole
  ELSE GetGameRole(Game, actions(state.action).roles)

\* The slot with which the challenged seat proves its claim, 0 when it has none.
ProofSlot ==
  IF ChallengeOpen /\ Challenged \in Seats
  THEN IndexOfInfluence(players[Challenged], ClaimedRole) ELSE 0

\* The accepted outcomes of a challenge by seat idx.
Challenges(idx) ==
  {o \in Command(Game, idx, Payload(stateId, "challenge")) : o.err = NoErr}

\* The accepted outcomes of a reveal by seat idx.
Reveals(idx) ==
  {o \in UNION {Command(Game, idx, c) : c \in RevealPayloads(stateId)} : o.err = NoErr}

\* The cards an outcome has drawn into an exchange offer, open or dropped since.
OfferCards(o) == o.g.offerDrawn + o.g.discarded - (offerDrawn + discarded)

\* The outcome waits in RevealInfluence for seat who to reveal, for the given reason;
\* turn holder, action, target and blocking role are those of the current state.
AwaitsReveal(o, reason, who) ==
  /\ o.g.st.name = REVEAL_INFLUENCE
  /\ o.g.st.reason = reason
  /\ o.g.st.playerToReveal = who
  /\ o.g.st.playerIdx = state.playerIdx
  /\ o.g.st.action = state.action
  /\ o.g.st.target = state.target
  /\ o.g.st.blockingRole = state.blockingRole

\* The number of cards an exchange draws.
OfferSize == IF "ambassador" \in Range(roles) THEN 2 ELSE 1

\* The failed challenge of seat idx ends at once with the exchange it let through.
DrawsAtOnce(idx) ==
  /\ state.name = ACTION_RESPONSE /\ state.action = "exchange"
  /\ players[idx].influenceCount = 1

Blockable == state.action \in ActionNames /\ actions(state.action).blockedBy # {}

TargetAlive(o) == state.target \in Seats /\ o.g.sp[state.target].influenceCount > 0

SameCash(o) == \A i \in Seats : o.g.sp[i].cash = players[i].cash

\* The outcome shows the effect of the state's action, played by the turn holder on the
\* target the state names.  (An assassination of a seat without influence has none.)
TookEffect(o) ==
  LET a == state.playerIdx
      t == state.target
      m == IF t \in Seats /\ players[t].cash < 2 THEN players[t].cash ELSE 2
  IN CASE state.action = "steal" ->
            IF t = a THEN SameCash(o)
            ELSE /\ o.g.sp[a].cash = players[a].cash + m
                 /\ o.g.sp[t].cash = players[t].cash - m
                 /\ \A i \in Seats \ {a, t} : o.g.sp[i].cash = players[i].cash
       [] state.action = "exchange" -> OfferCards(o) = OfferSize
       [] state.action = "interrogate" ->
            \/ o.g.st.name = INTERROGATE /\ o.g.st.target = t
            \/ o.g.st.name = GAME_WON
       [] state.action = "assassinate" -> o.g.st.name \in {START_OF_TURN, GAME_WON}
       [] OTHER ->
            /\ o.g.sp[a].cash = players[a].cash + actions(state.action).gain
            /\ \A i \in Seats \ {a} : o.g.sp[i].cash = players[i].cash

\* The outcome of the influence loss after a failed challenge of the action.
ActionResolved(o) ==
  /\ o.g.st.name = FINAL_ACTION_RESPONSE <=> (Blockable /\ TargetAlive(o))
  /\ o.g.st.name = FINAL_ACTION_RESPONSE =>
       /\ o.g.st.playerIdx = state.playerIdx /\ o.g.st.action = state.action
       /\ o.g.st.target = state.target
       /\ SameCash(o) /\ OfferCards(o) = 0
  /\ ~(Blockable /\ TargetAlive(o)) => TookEffect(o)

\* The outcome of the influence loss of seat idx after a failed challenge of the block.
BlockStands(o, idx) ==
  /\ o.g.st.name \in {START_OF_TURN, GAME_WON}
  /\ SameCash(o) /\ OfferCards(o) = 0
  /\ \A i \in Seats \ {idx} : o.g.sp[i].influenceCount = players[i].influenceCount

\* C12 as worded: after the influence loss that follows a failed challenge of an action,
\* at once or by the reveal, the state is FinalActionResponse if and only if the action
\* is blockable and its target has influence, and otherwise the action takes effect;
\* after a failed challenge of a block the turn passes and the action has no effect.
C12_Original ==
  /\ (state.name = ACTION_RESPONSE /\ ProofSlot # 0) =>
       \A idx \in Seats : players[idx].influenceCount = 1 =>
         \A o \in Challenges(idx) : ActionResolved(o)
  /\ (state.name = BLOCK_RESPONSE /\ ProofSlot # 0) =>
       \A idx \in Seats : players[idx].influenceCount = 1 =>
         \A o \in Challenges(idx) : BlockStands(o, idx)
  /\ (state.name = REVEAL_INFLUENCE /\ state.reason = "incorrect-challenge") =>
       \A idx \in Seats : \A o \in Reveals(idx) :
         IF state.blockingRole = Undef THEN ActionResolved(o) ELSE BlockStands(o, idx)

\* The accepted outcomes of one command sent by seat idx to the game g.
BlockOn(g, idx, r) ==
  {o \in Command(g, idx, [Payload(g.stateId, "block") EXCEPT !.blockingRole = r]) : o.err = NoErr}

ChallengeOn(g, idx) == {o \in Command(g, idx, Payload(g.stateId, "challenge")) : o.err = NoErr}

RevealOn(g, idx) ==
  {o \in UNION {Command(g, idx, [Payload(g.stateId, "reveal") EXCEPT !.role = r]) : r \in AllRoles} :
     o.err = NoErr}

\* The outcomes of a block by seat b with a role it does not hold, refuted by a challenge
\* and followed, when the challenge leaves b to choose, by b's reveal.
RefutedBlocks(b) ==
  UNION {UNION {UNION {IF oc.g.st.name = REVEAL_INFLUENCE /\ oc.g.st.reason = "successful-challenge"
                       THEN RevealOn(oc.g, b) ELSE {oc} :
                       oc \in UNION {ChallengeOn(ob.g, j) : j \in Seats}} :
                ob \in BlockOn(Game, b, r)} :
         r \in {x \in AllRoles : b \in Seats /\ IndexOfInfluence(players[b], x) = 0}}

\* A targeted action that can be blocked awaits responses; its target is another seat.
BlockableTargeted ==
  /\ state.name \in {ACTION_RESPONSE, FINAL_ACTION_RESPONSE}
  /\ state.action \in {"steal", "assassinate"}
  /\ state.target \in Seats /\ state.target # state.playerIdx

\* The outcome shows the state's action applied by its actor to the target it names
\* (or the loss of the challenge has ended the game before the action could be played).
AppliedAsDeclared(o) ==
  LET a == state.playerIdx
      t == state.target
      m == IF players[t].cash < 2 THEN players[t].cash ELSE 2
  IN IF o.g.st.name = GAME_WON THEN TRUE
     ELSE IF state.action = "steal"
     THEN /\ o.g.sp[a].cash = players[a].cash + m
          /\ o.g.sp[t].cash = players[t].cash - m
          /\ \A i \in Seats \ {a, t} : o.g.sp[i].cash = players[i].cash
     ELSE \/ o.g.sp[t].influenceCount < players[t].influenceCount
          \/ /\ o.g.st.name = REVEAL_INFLUENCE /\ o.g.st.reason = "assassinate"
             /\ o.g.st.playerToReveal = t

\* C13 as worded: when a block is successfully challenged, the action is applied by the
\* original actor to the target named in the play-action command (steal takes that
\* target's cash, assassinate removes that target's influence), whichever seat blocked.
C13_Original ==
  BlockableTargeted =>
    \A b \in Seats : \A o \in RefutedBlocks(b) : AppliedAsDeclared(o)

\* The first seat after seat a, in turn order, that has influence in the outcome.
NextLive(o, a) ==
  LET n == Len(players)
      cand(i) == ((a - 1 + i) % n) + 1
      hits == {i \in 1..(n - 1) : o.g.sp[cand(i)].influenceCount > 0}
  IN IF hits = {} THEN 0 ELSE cand(CHOOSE i \in hits : \A k \in hits : i <= k)

\* The outcome leaves every seat but seat a as it is, and seat a's cash as it is; no card
\* leaves the deck.
OnlyLoser(o, a) ==
  /\ \A i \in Seats \ {a} : o.g.sp[i] = players[i]
  /\ o.g.sp[a].cash = players[a].cash
  /\ o.g.deck = deck /\ OfferCards(o) = 0

\* The outcome ends the turn of seat a with one influence less for it and nothing else.
Cancelled(o, a) ==
  /\ OnlyLoser(o, a)
  /\ o.g.sp[a].influenceCount = players[a].influenceCount - 1
  /\ \/ /\ o.g.st.name = START_OF_TURN
        /\ o.g.st.playerIdx = NextLive(o, a)
        /\ o.g.st.playerIdx # 0
     \/ /\ o.g.st.name = GAME_WON
        /\ {i \in Seats : o.g.sp[i].influenceCount > 0} = {o.g.st.playerIdx}

\* C14: when the action itself is successfully challenged it is cancelled: the actor
\* loses one influence (at once with one card, else by its reveal) and, the cost paid
\* when the action was declared apart, no seat's cash or influence changes, no card is
\* drawn, and the next state is StartOfTurn of the next live seat, or GameWon.
C14_Cancelled ==
  /\ (state.name = ACTION_RESPONSE /\ ChallengeOpen /\ Challenged \in Seats /\ ProofSlot = 0) =>
       \A idx \in Seats : \A o \in Challenges(idx) :
         IF players[Challenged].influenceCount = 1
         THEN Cancelled(o, Challenged)
         ELSE /\ OnlyLoser(o, Challenged)
              /\ o.g.sp[Challenged] = players[Challenged]
              /\ AwaitsReveal(o, "successful-challenge", Challenged)
  /\ (/\ state.name = REVEAL_INFLUENCE /\ state.reason = "successful-challenge"
      /\ state.blockingRole = Undef) =>
       \A idx \in Seats : \A o \in Reveals(idx) :
         idx = state.playerIdx /\ Cancelled(o, idx)

\* The actor's claim has just been refuted by a challenge, and the actor is to reveal.
C14_Witness ==
  /\ last.kind = "challenge" /\ last.res = "ok"
  /\ state.name = REVEAL_INFLUENCE /\ state.reason = "successful-challenge"
  /\ state.blockingRole = Undef
  /\ state.playerToReveal = state.playerIdx
  /\ state.action \in {"steal", "exchange", "tax"}

\* C15 as worded: when a block of an assassination is successfully challenged, the
\* blocker that is the assassination's target ends with no influence (one lost to the
\* challenge, one to the assassination), and a blocker that is not the target of the
\* assassination loses no more than one influence.
C15_Original ==
  (BlockableTargeted /\ state.action = "assassinate") =>
    \A b \in Seats : \A o \in RefutedBlocks(b) :
      IF b = state.target
      THEN o.g.sp[b].influenceCount = 0
      ELSE o.g.sp[b].influenceCount >= players[b].influenceCount - 1

\* The game state of a result is the current one: variant, roles, deck, seats, stateId.
SameGame(r) ==
  /\ r.g.st = state /\ r.g.roles = roles /\ r.g.deck = deck
  /\ r.g.sp = players /\ r.g.stateId = stateId

\* C16 as worded: a command sent through the handle of an observer seat, whatever joins
\* and leaves of other seats came before, changes nothing of the game state.
C16_Original ==
  \A j \in Handles : players[j].isObserver =>
    \A c \in AllPayloads(stateId) : c.command # "add-ai" =>
      \A r \in Submit(j, c) : SameGame(r)

\* C17 as worded: once the game has started, no leave moves a seat that is not an
\* observer: after the leave of any connected participant, every index that held such
\* a seat still holds one.  (Stated for games dealt to at least 2 players.)
C17_Original ==
  (Dealt /\ Cardinality({i \in Seats : ~players[i].isObserver}) >= MIN_PLAYERS) =>
    \A j \in Handles : \A o \in PlayerLeft(Game, proxies[j].idx) :
      o.err = NoErr =>
        \A i \in Seats : ~players[i].isObserver =>
          /\ i <= Len(o.g.sp)
          /\ ~o.g.sp[i].isObserver
          /\ o.g.sp[i].ai = players[i].ai

\* The seats of connected human participants.
Humans == {i \in DOMAIN conn : conn[i] = "human"}

RoleBag(cards) == PushAll(EmptyDeck, cards)

SubBag(a, b) == \A r \in AllRoles : a[r] <= b[r]

\* The submission is a choice of as many of the offered roles as seat a has influence.
ValidChoice(c, a) ==
  /\ c.hasRoles
  /\ Len(c.roles) = players[a].influenceCount
  /\ SubBag(RoleBag(c.roles), RoleBag(state.exchangeOptions))

\* C19 as worded: an exchange is a round trip on the cards.  In the Exchange state the offer is
\* the actor's unrevealed roles and the k cards drawn (k = 2 with the ambassador, 1 with
\* the inquisitor); a submission of influenceCount roles out of the offer is accepted,
\* puts k cards back (the deck is as large as before the draw), leaves influenceCount
\* as it is, makes the submitted roles the actor's unrevealed roles, and keeps the bag
\* of the actor's unrevealed roles and the deck; any other submission is rejected.
C19_Original ==
  (state.name = EXCHANGE /\ state.playerIdx \in Seats) =>
    LET a == state.playerIdx
        own == GetInfluence(players[a])
    IN /\ offerDrawn = OfferSize
       /\ Len(state.exchangeOptions) = OfferSize + players[a].influenceCount
       /\ RoleBag(state.exchangeOptions) = PushAll(RoleBag(own), SubSeq(state.exchangeOptions, 1, OfferSize))
       /\ \A c \in ExchangePayloads(stateId) : \A o \in Command(Game, a, c) :
            IF ValidChoice(c, a)
            THEN /\ o.err = NoErr
                 /\ DeckSize(o.g.deck) = DeckSize(deck) + OfferSize
                 /\ o.g.sp[a].influenceCount = players[a].influenceCount
                 /\ RoleBag(GetInfluence(o.g.sp[a])) = RoleBag(c.roles)
                 /\ Len(GetInfluence(o.g.sp[a])) = Len(c.roles)
                 /\ PushAll(o.g.deck, c.roles) = PushAll(deck, state.exchangeOptions)
                 /\ o.g.offerDrawn = 0 /\ o.g.discarded = discarded
            ELSE o.err # NoErr /\ o.g = Game

\* C20 as worded: no draw finds the deck empty: no unrevealed influence and no card of
\* an exchange offer holds the undefined that a pop of the empty deck returns.
C20_Original ==
  Dealt =>
    /\ \A i \in Seats : \A k \in DOMAIN players[i].influence :
         ~players[i].influence[k].revealed => players[i].influence[k].role \in AllRoles
    /\ state.name = EXCHANGE =>
         \A k \in DOMAIN state.exchangeOptions : state.exchangeOptions[k] \in AllRoles

\* The seat that opened the pending response: the blocker of a block, else the actor.
Initiator(st) == IF st.name = BLOCK_RESPONSE THEN st.target ELSE st.playerIdx

\* With the allow of seat idx every seat with influence but the initiator has allowed.
Complete(idx) ==
  \A i \in Seats :
    players[i].influenceCount = 0 \/ i = Initiator(state) \/ i \in allows \cup {idx}

\* The accepted outcomes of an allow of seat idx.
Allowances(idx) == {o \in Command(Game, idx, Payload(stateId, "allow")) : o.err = NoErr}

\* C21: in ActionResponse and BlockResponse an allow moves the game on only when it
\* completes the set of live seats other than the initiator (the actor, or the blocker),
\* and then it does; an allow that does not complete the set changes the allow
\* bookkeeping and nothing else; a leave moves the pending response on by allowance
\* only when the remaining live seats have all allowed; and every newly entered
\* ActionResponse or BlockResponse starts with the initiator's mark alone.
C21_Allows ==
  /\ state.name \in {ACTION_RESPONSE, BLOCK_RESPONSE} =>
       /\ \A idx \in Seats : \A o \in Allowances(idx) :
            IF Complete(idx)
            THEN o.g.st # state /\ o.g.stateId = stateId + 1
            ELSE o.g = [Game EXCEPT !.allows = allows \cup {idx}]
       /\ \A j \in Handles : \A o \in PlayerLeft(Game, proxies[j].idx) :
            LET k == proxies[j].idx
            IN (/\ o.err = NoErr /\ k \in Seats /\ ~players[k].isObserver
                /\ k # state.playerIdx
                /\ o.g.st.name \notin {state.name, GAME_WON, DESTROYED}) =>
                 \A i \in Seats \ {k} :
                   players[i].influenceCount = 0 \/ i = Initiator(state) \/ i \in allows
  /\ \A idx \in Seats : \A c \in PlayPayloads(stateId) \cup BlockPayloads(stateId) :
       \A o \in Command(Game, idx, c) :
         (o.err = NoErr /\ o.g.st.name \in {ACTION_RESPONSE, BLOCK_RESPONSE}) =>
           o.g.allows = {idx} /\ Initiator(o.g.st) = idx

\* One of two live responders has allowed the pending action; the other has not.
C21_Witness ==
  /\ last.kind = "allow" /\ last.res = "ok"
  /\ state.name = ACTION_RESPONSE
  /\ Cardinality({i \in Seats : players[i].influenceCount > 0}) = 3
  /\ allows = {state.playerIdx, last.seat}
  /\ last.seat # state.playerIdx

\* The number of unrevealed slots of a seat record.
Unrevealed(player) == Cardinality({k \in DOMAIN player.influence : ~player.influence[k].revealed})

\* Every slot revealed in the seats base is the same slot, still revealed, in the seats sp.
RevealedKept(base, sp) ==
  \A i \in DOMAIN base : \A k \in DOMAIN base[i].influence :
    base[i].influence[k].revealed =>
      /\ i \in DOMAIN sp /\ k \in DOMAIN sp[i].influence
      /\ sp[i].influence[k] = base[i].influence[k]

\* C22 as worded: after start every seat's influenceCount is the number of its
\* unrevealed slots; a seat with influence has two slots, each revealed, or unrevealed
\* with a role in play; a seat without influence has every slot revealed; and no
\* command, join or leave unreveals a revealed slot or changes its role (the seats
\* compared as they stand after the removal of a leaving observer).
C22_Original ==
  Dealt =>
    /\ \A i \in Seats :
         /\ players[i].influenceCount = Unrevealed(players[i])
         /\ players[i].influenceCount > 0 =>
              /\ Len(players[i].influence) = 2
              /\ \A k \in 1..2 :
                   \/ players[i].influence[k].revealed
                   \/ players[i].influence[k].role \in Range(roles)
    /\ \A idx \in Seats : \A c \in AllPayloads(stateId) : \A o \in Command(Game, idx, c) :
         RevealedKept(players, o.g.sp)
    /\ \A j \in Handles : \A o \in PlayerLeft(Game, proxies[j].idx) :
         LET k == proxies[j].idx
         IN RevealedKept(IF k \in Seats /\ players[k].isObserver
                         THEN RemoveAt(players, k) ELSE players, o.g.sp)
    /\ RevealedKept(players, PlayerJoined(Game, FALSE).sp)

\* Seat v is the seat that holds the open exchange offer: a player with influence whose
\* unrevealed roles are the tail of the offer.
Exchanging(v) ==
  /\ ~players[v].isObserver /\ players[v].influenceCount > 0
  /\ LET own == GetInfluence(players[v])
         n == Len(state.exchangeOptions)
     IN Len(own) <= n /\ SubSeq(state.exchangeOptions, n - Len(own) + 1, n) = own

\* C23 as worded: the snapshot for seat v shows exchangeOptions only in Exchange and only
\* to the exchanging seat, and a confession only in Interrogate and only to the
\* interrogator; and the interrogate command queues its private history entry once, for
\* the interrogated seat, a player of the game.
C23_Original ==
  /\ \A v \in Seats :
       LET m == MaskState(Game, v) IN
       /\ m.state.exchangeOptions # <<>> =>
            state.name = EXCHANGE /\ v = state.playerIdx /\ Exchanging(v)
       /\ m.state.confession # Undef =>
            /\ state.name = INTERROGATE /\ v = state.playerIdx
            /\ ~players[v].isObserver
  /\ state.name = INTERROGATE =>
       /\ state.target \in Seats /\ ~players[state.target].isObserver
       /\ \A idx \in Seats : \A c \in InterrogatePayloads(stateId) :
            \A o \in Command(Game, idx, c) :
              o.err = NoErr => idx = state.playerIdx /\ o.g.hist = 1 + Len(players)

\* The cash of the outcome differs from the present cash by a steal of the turn holder
\* from the seat the state names: min(2, the target's cash) changes hands.
StealMoved(o) ==
  LET a == state.playerIdx
      t == state.target
      m == IF players[t].cash < 2 THEN players[t].cash ELSE 2
  IN /\ o.g.sp[a].cash = players[a].cash + m
     /\ o.g.sp[t].cash = players[t].cash - m
     /\ o.g.sp[a].cash + o.g.sp[t].cash = players[a].cash + players[t].cash
     /\ \A i \in Seats \ {a, t} : o.g.sp[i].cash = players[i].cash

\* The outcomes of every command and every leave at the present state that keep the seats.
Outcomes ==
  UNION ({Command(Game, idx, c) : idx \in Seats, c \in AllPayloads(stateId)}
         \cup {PlayerLeft(Game, k) : k \in Seats})

\* C24 as worded: every seat's cash is a natural number; a play-action whose cost exceeds
\* the actor's cash is rejected and changes nothing; and while a steal is pending, no
\* command or leave changes the cash except by moving min(2, the target's cash) from the
\* target to the actor, which the allow that ends the responses does.
C24_Original ==
  /\ \A i \in Seats : players[i].cash \in Nat
  /\ \A idx \in Seats : \A c \in PlayPayloads(stateId) : \A o \in Command(Game, idx, c) :
       /\ c.action \in ActionNames /\ actions(c.action).cost > players[idx].cash =>
            o.err # NoErr /\ o.g.sp = players /\ o.g.st = state
       /\ o.err = NoErr => o.g.sp[idx].cash = players[idx].cash - actions(c.action).cost
                                              + (IF o.g.st.name = ACTION_RESPONSE THEN 0
                                                 ELSE actions(c.action).gain)
  /\ state.name \in {ACTION_RESPONSE, FINAL_ACTION_RESPONSE, BLOCK_RESPONSE, REVEAL_INFLUENCE}
       /\ state.action = "steal" /\ state.target \in Seats /\ state.playerIdx \in Seats =>
       /\ \A o \in Outcomes :
            Len(o.g.sp) = Len(players) => SameCash(o) \/ StealMoved(o)
       /\ state.name \in {ACTION_RESPONSE, FINAL_ACTION_RESPONSE} =>
            \A idx \in Seats : \A o \in Command(Game, idx, Payload(stateId, "allow")) :
              o.err = NoErr /\ o.g.st.name \in {START_OF_TURN, GAME_WON} => StealMoved(o)

\* How often role r lies in a dealt slot, in the deck or among the cards drawn into the
\* open exchange offer (the offer lists the drawn cards before the seat's own).
Copies(r) ==
  Cardinality({<<i, j>> \in Seats \X (1..2) :
                 j \in DOMAIN players[i].influence /\ players[i].influence[j].role = r})
  + deck[r]
  + Cardinality({k \in 1..offerDrawn :
                   k \in DOMAIN state.exchangeOptions /\ state.exchangeOptions[k] = r})

\* C25 as worded: after start the dealt slots of all seats, revealed or not, the deck and
\* the cards drawn into an open exchange offer hold three cards per role in play, each
\* role exactly three times, also once the exchanging seat has left or the game is won.
C25_Original ==
  Dealt =>
    /\ Cardinality(Slots(FALSE)) + Cardinality(Slots(TRUE)) + DeckSize(deck) + offerDrawn
         = DeckCopies * Len(roles)
    /\ \A k \in DOMAIN roles : Copies(roles[k]) = DeckCopies

\* The outcome is more than a refusal: the command went through, or it left a trace in
\* the seats, the state, the deck or the history queue before it stopped.
Acted(o) ==
  \/ o.err = NoErr
  \/ o.g.sp # players \/ o.g.st # state \/ o.g.deck # deck \/ o.g.hist > 0

C27_Original ==
  /\ state.name \in {ACTION_RESPONSE, FINAL_ACTION_RESPONSE}
       /\ state.action \in ActionNames /\ actions(state.action).targeted
       => state.target # state.playerIdx
  /\ state.name = REVEAL_INFLUENCE /\ state.reason \in {"coup", "assassinate"}
       => state.target # state.playerIdx
  /\ state.name = INTERROGATE => state.target # state.playerIdx

\* C28 as worded: in Interrogate the target has influence and the confession is the role
\* of one of its unrevealed slots, so the interrogator's interrogate with forceExchange
\* is accepted and re-deals that slot and no other.
C28_Original ==
  state.name = INTERROGATE =>
    /\ state.target \in Seats
    /\ players[state.target].influenceCount > 0
    /\ IndexOfInfluence(players[state.target], state.confession) # 0
    /\ \A o \in Command(Game, state.playerIdx,
                        [Payload(stateId, "interrogate") EXCEPT !.forceExchange = TRUE]) :
         LET slot == IndexOfInfluence(players[state.target], state.confession) IN
         /\ o.err = NoErr
         /\ \A i \in Seats : \A j \in DOMAIN players[i].influence :
              <<i, j>> # <<state.target, slot>> => o.g.sp[i].influence[j] = players[i].influence[j]
         /\ ~o.g.sp[state.target].influence[slot].revealed

\* C29 as worded: a reveal never eliminates a seat: whenever the state is RevealInfluence
\* and the seat in playerToReveal has not left, that seat has two influences, and its
\* accepted reveal leaves it one.
C29_Original ==
  state.name = REVEAL_INFLUENCE =>
    /\ state.playerToReveal \in Seats /\ Connected(Game, state.playerToReveal) =>
         players[state.playerToReveal].influenceCount = 2
    /\ \A idx \in Seats : \A o \in Reveals(idx) :
         /\ idx = state.playerToReveal
         /\ o.g.sp[idx].influenceCount = 1
         /\ \A i \in Seats \ {idx} : o.g.sp[i].influenceCount = players[i].influenceCount

\* C30 as worded: GameWon is absorbing: in GameWon the winner is the only seat with
\* influence, no command is accepted or changes the state, the seats or the deck, the end
\* of the game has been recorded exactly once, and a leave keeps GameWon or destroys the game.
C30_Original ==
  /\ gameOvers <= 1
  /\ state.name = GAME_WON =>
       /\ gameOvers = 1
       /\ state.playerIdx \in Seats
       /\ \A i \in Seats : players[i].influenceCount > 0 <=> i = state.playerIdx
       /\ \A idx \in Seats : \A c \in AllPayloads(stateId) : \A o \in Command(Game, idx, c) :
            /\ o.err # NoErr
            /\ o.g.st = state /\ o.g.sp = players /\ o.g.deck = deck
            /\ o.g.gameOvers = gameOvers
       /\ \A k \in Seats : \A o \in PlayerLeft(Game, k) :
            /\ o.g.st.name \in {GAME_WON, DESTROYED}
            /\ o.g.deck = deck /\ o.g.gameOvers = gameOvers
            /\ Len(o.g.sp) = Len(players) => o.g.sp = players

\* C31 as worded: a snapshot is handed only to the participant for whose seat it was
\* masked, whatever joins, leaves and commands run between its masking and its delivery:
\* the receiver is the participant the snapshot was made for, it sits at the snapshot's
\* viewer index, and the snapshot shows unrevealed roles of no other seat.
C31_Original ==
  got.to # 0 =>
    /\ got.to = got.for
    /\ got.viewer \in DOMAIN ids /\ ids[got.viewer] = got.to
    /\ got.shown \subseteq {got.viewer}

====
